---- MODULE Spec2Model ----
(***************************************************************************)
(* A model of erizo's MediaDefinitions.h: the Monitor guard, FeedbackSink, *)
(* FeedbackSource, MediaSink and MediaSource, called by several threads.   *)
(*                                                                         *)
(* Every thread has a call stack of frames.  A frame is one invocation of  *)
(* a method: [op, this, arg, pc, ret, res, n], where pc is the position in *)
(* the method's body, ret the value the method returns, res the value the  *)
(* last call made from this frame returned, and n the number of calls made *)
(* from this frame.  A guarded method runs  lock -> cs : it waits for      *)
(* monitor_mutex_ at "lock"; one step takes the mutex and runs the body,   *)
(* which no other guarded method can interleave with; at "cs" the frame    *)
(* holds the mutex with its return value computed, and the scoped_lock's   *)
(* destructor releases the mutex when the frame is popped.  An unguarded   *)
(* method runs  read -> ret .                                              *)
(***************************************************************************)
EXTENDS Integers, Sequences, FiniteSets, TLC

\* ---------------------------------------------------------------- bounds
NumThreads == 2
MaxSSRC == 2
MaxLen == 2
MaxReenter == 1

Threads == 1..NumThreads

\* uint32_t values the callers pass: 0 is the constructors' default.
SSRCs == 0..MaxSSRC
\* What a read that is undefined behaviour (a data race, an index past the
\* end of the vector) may yield besides the values above: some other uint32_t.
Indeterminate == MaxSSRC + 1
U32 == 0..Indeterminate

\* ------------------------------------------------------------ the objects
\* A is a MediaSink and a FeedbackSource; R is a relay: a MediaSink, a
\* MediaSource, a FeedbackSink and a FeedbackSource in one object.
nullptr == "nullptr"
Sinks == {"A", "R"}
Sources == {"R"}
FeedbackSinks == {"R"}
FeedbackSources == {"A", "R"}
Objects == Sinks \cup Sources

NoVal == <<>>
Free == 0

VARIABLES
    monitor_mutex_,            \* Monitor: per Monitor subobject, Free or the owning thread
    audio_sink_ssrc_,          \* MediaSink
    video_sink_ssrc_,
    sink_fb_source_,
    audio_source_ssrc_,        \* MediaSource
    video_source_ssrc_list_,
    video_sink_,
    audio_sink_,
    source_fb_sink_,
    fb_sink_,                  \* FeedbackSource
    stack,                     \* per thread, its call stack
    fut,                       \* history: the field the SSRC scenario exercises
    written,                   \* history: the values passed to the setter of fut
    snap,                      \* history: a list a caller got from getVideoSourceSSRCList
    lastSet,                   \* history: per kind, the sink last written by setVideoSink/setAudioSink
    may,                       \* history: per thread, the sinks attached since its delivery began
                               \* (the values the field held since its scan began)
    pkt,                       \* the dataPacket a collaborator has constructed, if any
    buf,                       \* the collaborator's buffer the packet is constructed from
    answer,                    \* what the belongsTo...Layer call just made returned
    destroyed                  \* the FeedbackSinks whose destructor has run

sinkVars == <<audio_sink_ssrc_, video_sink_ssrc_, sink_fb_source_>>
sourceVars == <<audio_source_ssrc_, video_source_ssrc_list_, video_sink_, audio_sink_, source_fb_sink_>>
fields == <<sinkVars, sourceVars, fb_sink_>>
histVars == <<fut, written, snap, lastSet, may>>
pktVars == <<pkt, buf, answer>>
vars == <<monitor_mutex_, fields, stack, histVars, pktVars, destroyed>>

\* ------------------------------------------------------------ class Monitor
\* MediaSink and MediaSource derive from Monitor virtually, so an object that is
\* both has one Monitor subobject, and one monitor_mutex_, for both classes.
MonitorOfNonVirtual(o, cls) == <<o, cls>>

MonitorOf(o, cls) == <<o, "Monitor">>

Monitors == {MonitorOf(o, cls) : o \in Objects, cls \in {"MediaSink", "MediaSource"}}

\* ------------------------------------------------------------ call stacks
Frame(op, o, arg, pc) ==
    [op |-> op, this |-> o, arg |-> arg, pc |-> pc, ret |-> NoVal, res |-> NoVal, n |-> 0]

Idle(t) == stack[t] = <<>>

Top(t) == stack[t][Len(stack[t])]

At(t, op, o, pc) ==
    /\ ~Idle(t)
    /\ Top(t).op = op
    /\ Top(t).this = o
    /\ Top(t).pc = pc

AtArg(t, op, o, arg, pc) == At(t, op, o, pc) /\ Top(t).arg = arg

\* The overridable implementations, whose bodies may call back into the objects.
ImplOps == {"deliverAudioData_", "deliverVideoData_", "deliverFeedback_"}

\* Who may call a public method: a thread of an outside collaborator (its stack is
\* empty), or an overridable implementation that is running.
CanCall(t) ==
    IF Idle(t) THEN TRUE
    ELSE Top(t).op \in ImplOps /\ Top(t).pc = "body" /\ Top(t).n < MaxReenter

Pushed(s, f) ==
    IF s = <<>> THEN <<f>>
    ELSE [s EXCEPT ![Len(s)] = [@ EXCEPT !.n = @ + 1]] \o <<f>>

Popped(s) ==
    IF Len(s) = 1 THEN <<>>
    ELSE [SubSeq(s, 1, Len(s) - 1) EXCEPT ![Len(s) - 1] = [@ EXCEPT !.res = s[Len(s)].ret]]

Invoke(t, f) == stack' = [stack EXCEPT ![t] = Pushed(@, f)]

Call(t, f) == CanCall(t) /\ Invoke(t, f)

Goto(t, pc) == stack' = [stack EXCEPT ![t] = [@ EXCEPT ![Len(@)] = [@ EXCEPT !.pc = pc]]]

\* The return statement: the value is computed, the frame is about to be left.
Return(t, v, pc) ==
    stack' = [stack EXCEPT ![t] = [@ EXCEPT ![Len(@)] = [@ EXCEPT !.ret = v, !.pc = pc]]]

Pop(t) == stack' = [stack EXCEPT ![t] = Popped(@)]

\* boost::mutex::scoped_lock lock(monitor_mutex_): blocks until the mutex is free.
ScopedLockNoWait(t, cls) ==
    monitor_mutex_' = [monitor_mutex_ EXCEPT ![MonitorOf(Top(t).this, cls)] = t]

ScopedLock(t, cls) ==
    /\ monitor_mutex_[MonitorOf(Top(t).this, cls)] = Free
    /\ monitor_mutex_' = [monitor_mutex_ EXCEPT ![MonitorOf(Top(t).this, cls)] = t]

\* ~scoped_lock at the end of the method's scope, then the return to the caller.
ScopedUnlock(t, cls) ==
    /\ monitor_mutex_' = [monitor_mutex_ EXCEPT ![MonitorOf(Top(t).this, cls)] = Free]
    /\ Pop(t)

\* ------------------------------------------------------------ memory accesses
\* The field a method reads or writes.
FieldOf(op) ==
    CASE op \in {"getVideoSinkSSRC", "setVideoSinkSSRC", "isVideoSinkSSRC"} -> "video_sink_ssrc_"
      [] op \in {"getAudioSinkSSRC", "setAudioSinkSSRC", "isAudioSinkSSRC"} -> "audio_sink_ssrc_"
      [] op \in {"getFeedbackSource"} -> "sink_fb_source_"
      [] op \in {"setAudioSink", "forwardAudio"} -> "audio_sink_"
      [] op \in {"setVideoSink", "forwardVideo"} -> "video_sink_"
      [] op \in {"getFeedbackSink"} -> "source_fb_sink_"
      [] op \in {"getVideoSourceSSRC", "setVideoSourceSSRC", "getVideoSourceSSRCList",
                 "setVideoSourceSSRCList", "isVideoSourceSSRC"} -> "video_source_ssrc_list_"
      [] op \in {"getAudioSourceSSRC", "setAudioSourceSSRC", "isAudioSourceSSRC"} -> "audio_source_ssrc_"
      [] op \in {"setFeedbackSink", "emitFeedback"} -> "fb_sink_"
      [] OTHER -> "none"

WriteOps ==
    {"setVideoSinkSSRC", "setAudioSinkSSRC", "setAudioSink", "setVideoSink",
     "setVideoSourceSSRC", "setVideoSourceSSRCList", "setAudioSourceSSRC", "setFeedbackSink"}

\* Thread t is where it touches `field` of object o: inside the critical section
\* of a guarded method ("cs"), or at the read of an unguarded one ("read").
Accessing(t, o, field) ==
    /\ ~Idle(t)
    /\ Top(t).pc \in {"cs", "read", "scan"}
    /\ Top(t).this = o
    /\ FieldOf(Top(t).op) = field

\* A data race: while t's top frame touches its field, another thread is touching
\* the same field of the same object, and one of the two accesses is a write.
Race(t) ==
    \E u \in Threads \ {t} :
        /\ Accessing(u, Top(t).this, FieldOf(Top(t).op))
        /\ (Top(t).op \in WriteOps \/ Top(u).op \in WriteOps)

\* The values a read of a uint32_t field holding v may yield.
LoadU32(t, v) == IF Race(t) THEN U32 ELSE {v}

\* ------------------------------------------------------------ class MediaSink
Enter(t, f) == Call(t, f) /\ UNCHANGED <<monitor_mutex_, fields>>

Leave(t, cls) == ScopedUnlock(t, cls) /\ UNCHANGED fields

getVideoSinkSSRC(t, o) ==
    \/ Enter(t, Frame("getVideoSinkSSRC", o, NoVal, "lock"))
    \/ /\ At(t, "getVideoSinkSSRC", o, "lock")
       /\ ScopedLock(t, "MediaSink")
       /\ \E v \in LoadU32(t, video_sink_ssrc_[o]) : Return(t, v, "cs")
       /\ UNCHANGED fields
    \/ At(t, "getVideoSinkSSRC", o, "cs") /\ Leave(t, "MediaSink")

setVideoSinkSSRCNoLock(t, o, ssrc) ==
    \/ Enter(t, Frame("setVideoSinkSSRC", o, ssrc, "lock"))
    \/ /\ AtArg(t, "setVideoSinkSSRC", o, ssrc, "lock")
       /\ video_sink_ssrc_' = [video_sink_ssrc_ EXCEPT ![o] = ssrc]
       /\ Return(t, NoVal, "cs")
       /\ UNCHANGED <<monitor_mutex_, audio_sink_ssrc_, sink_fb_source_, sourceVars, fb_sink_>>
    \/ /\ AtArg(t, "setVideoSinkSSRC", o, ssrc, "cs")
       /\ Pop(t)
       /\ UNCHANGED <<monitor_mutex_, fields>>

setVideoSinkSSRC(t, o, ssrc) ==
    \/ Enter(t, Frame("setVideoSinkSSRC", o, ssrc, "lock"))
    \/ /\ AtArg(t, "setVideoSinkSSRC", o, ssrc, "lock")
       /\ ScopedLock(t, "MediaSink")
       /\ video_sink_ssrc_' = [video_sink_ssrc_ EXCEPT ![o] = ssrc]
       /\ Return(t, NoVal, "cs")
       /\ UNCHANGED <<audio_sink_ssrc_, sink_fb_source_, sourceVars, fb_sink_>>
    \/ AtArg(t, "setVideoSinkSSRC", o, ssrc, "cs") /\ Leave(t, "MediaSink")

getAudioSinkSSRC(t, o) ==
    \/ Enter(t, Frame("getAudioSinkSSRC", o, NoVal, "lock"))
    \/ /\ At(t, "getAudioSinkSSRC", o, "lock")
       /\ ScopedLock(t, "MediaSink")
       /\ \E v \in LoadU32(t, audio_sink_ssrc_[o]) : Return(t, v, "cs")
       /\ UNCHANGED fields
    \/ At(t, "getAudioSinkSSRC", o, "cs") /\ Leave(t, "MediaSink")

setAudioSinkSSRC(t, o, ssrc) ==
    \/ Enter(t, Frame("setAudioSinkSSRC", o, ssrc, "lock"))
    \/ /\ AtArg(t, "setAudioSinkSSRC", o, ssrc, "lock")
       /\ ScopedLock(t, "MediaSink")
       /\ audio_sink_ssrc_' = [audio_sink_ssrc_ EXCEPT ![o] = ssrc]
       /\ Return(t, NoVal, "cs")
       /\ UNCHANGED <<video_sink_ssrc_, sink_fb_source_, sourceVars, fb_sink_>>
    \/ AtArg(t, "setAudioSinkSSRC", o, ssrc, "cs") /\ Leave(t, "MediaSink")

\* Unguarded: no scoped_lock; the frame is popped without touching the mutex.
isVideoSinkSSRC(t, o, ssrc) ==
    \/ Enter(t, Frame("isVideoSinkSSRC", o, ssrc, "read"))
    \/ /\ AtArg(t, "isVideoSinkSSRC", o, ssrc, "read")
       /\ \E v \in LoadU32(t, video_sink_ssrc_[o]) : Return(t, ssrc = v, "ret")
       /\ UNCHANGED <<monitor_mutex_, fields>>
    \/ /\ AtArg(t, "isVideoSinkSSRC", o, ssrc, "ret")
       /\ Pop(t)
       /\ UNCHANGED <<monitor_mutex_, fields>>

isAudioSinkSSRC(t, o, ssrc) ==
    \/ Enter(t, Frame("isAudioSinkSSRC", o, ssrc, "read"))
    \/ /\ AtArg(t, "isAudioSinkSSRC", o, ssrc, "read")
       /\ \E v \in LoadU32(t, audio_sink_ssrc_[o]) : Return(t, ssrc = v, "ret")
       /\ UNCHANGED <<monitor_mutex_, fields>>
    \/ /\ AtArg(t, "isAudioSinkSSRC", o, ssrc, "ret")
       /\ Pop(t)
       /\ UNCHANGED <<monitor_mutex_, fields>>

getFeedbackSource(t, o) ==
    \/ Enter(t, Frame("getFeedbackSource", o, NoVal, "lock"))
    \/ /\ At(t, "getFeedbackSource", o, "lock")
       /\ ScopedLock(t, "MediaSink")
       /\ Return(t, sink_fb_source_[o], "cs")
       /\ UNCHANGED fields
    \/ At(t, "getFeedbackSource", o, "cs") /\ Leave(t, "MediaSink")

\* ------------------------------------------------------------ class MediaSource
setAudioSink(t, o, audio_sink) ==
    \/ Enter(t, Frame("setAudioSink", o, audio_sink, "lock"))
    \/ /\ AtArg(t, "setAudioSink", o, audio_sink, "lock")
       /\ ScopedLock(t, "MediaSource")
       /\ audio_sink_' = [audio_sink_ EXCEPT ![o] = audio_sink]
       /\ Return(t, NoVal, "cs")
       /\ UNCHANGED <<sinkVars, audio_source_ssrc_, video_source_ssrc_list_, video_sink_,
                      source_fb_sink_, fb_sink_>>
    \/ AtArg(t, "setAudioSink", o, audio_sink, "cs") /\ Leave(t, "MediaSource")

setVideoSinkOnlyNonNull(t, o, video_sink) ==
    \/ Enter(t, Frame("setVideoSink", o, video_sink, "lock"))
    \/ /\ AtArg(t, "setVideoSink", o, video_sink, "lock")
       /\ ScopedLock(t, "MediaSource")
       /\ video_sink_' = IF video_sink = nullptr THEN video_sink_
                         ELSE [video_sink_ EXCEPT ![o] = video_sink]
       /\ Return(t, NoVal, "cs")
       /\ UNCHANGED <<sinkVars, audio_source_ssrc_, video_source_ssrc_list_, audio_sink_,
                      source_fb_sink_, fb_sink_>>
    \/ AtArg(t, "setVideoSink", o, video_sink, "cs") /\ Leave(t, "MediaSource")

setVideoSinkDetachesAudio(t, o, video_sink) ==
    \/ Enter(t, Frame("setVideoSink", o, video_sink, "lock"))
    \/ /\ AtArg(t, "setVideoSink", o, video_sink, "lock")
       /\ ScopedLock(t, "MediaSource")
       /\ video_sink_' = [video_sink_ EXCEPT ![o] = video_sink]
       /\ audio_sink_' = [audio_sink_ EXCEPT ![o] = nullptr]
       /\ Return(t, NoVal, "cs")
       /\ UNCHANGED <<sinkVars, audio_source_ssrc_, video_source_ssrc_list_,
                      source_fb_sink_, fb_sink_>>
    \/ AtArg(t, "setVideoSink", o, video_sink, "cs") /\ Leave(t, "MediaSource")

setVideoSink(t, o, video_sink) ==
    \/ Enter(t, Frame("setVideoSink", o, video_sink, "lock"))
    \/ /\ AtArg(t, "setVideoSink", o, video_sink, "lock")
       /\ ScopedLock(t, "MediaSource")
       /\ video_sink_' = [video_sink_ EXCEPT ![o] = video_sink]
       /\ Return(t, NoVal, "cs")
       /\ UNCHANGED <<sinkVars, audio_source_ssrc_, video_source_ssrc_list_, audio_sink_,
                      source_fb_sink_, fb_sink_>>
    \/ AtArg(t, "setVideoSink", o, video_sink, "cs") /\ Leave(t, "MediaSource")

getFeedbackSink(t, o) ==
    \/ Enter(t, Frame("getFeedbackSink", o, NoVal, "lock"))
    \/ /\ At(t, "getFeedbackSink", o, "lock")
       /\ ScopedLock(t, "MediaSource")
       /\ Return(t, source_fb_sink_[o], "cs")
       /\ UNCHANGED fields
    \/ At(t, "getFeedbackSink", o, "cs") /\ Leave(t, "MediaSource")

\* video_source_ssrc_list_[0]: element 0 of the vector is element 1 of the sequence.
\* On an empty vector the index is past the end: the read is undefined and may
\* yield any uint32_t.
getVideoSourceSSRC(t, o) ==
    \/ Enter(t, Frame("getVideoSourceSSRC", o, NoVal, "lock"))
    \/ /\ At(t, "getVideoSourceSSRC", o, "lock")
       /\ ScopedLock(t, "MediaSource")
       /\ \E v \in (IF video_source_ssrc_list_[o] = <<>> THEN U32
                    ELSE LoadU32(t, video_source_ssrc_list_[o][1])) : Return(t, v, "cs")
       /\ UNCHANGED fields
    \/ At(t, "getVideoSourceSSRC", o, "cs") /\ Leave(t, "MediaSource")

setVideoSourceSSRCResizes(t, o, ssrc) ==
    \/ Enter(t, Frame("setVideoSourceSSRC", o, ssrc, "lock"))
    \/ /\ AtArg(t, "setVideoSourceSSRC", o, ssrc, "lock")
       /\ ScopedLock(t, "MediaSource")
       /\ video_source_ssrc_list_' = [video_source_ssrc_list_ EXCEPT ![o] = <<ssrc>>]
       /\ Return(t, NoVal, "cs")
       /\ UNCHANGED <<sinkVars, audio_source_ssrc_, video_sink_, audio_sink_,
                      source_fb_sink_, fb_sink_>>
    \/ AtArg(t, "setVideoSourceSSRC", o, ssrc, "cs") /\ Leave(t, "MediaSource")

\* On an empty vector the write goes past the end (undefined): the vector stays
\* empty, whatever else the stray write hits.
setVideoSourceSSRC(t, o, ssrc) ==
    \/ Enter(t, Frame("setVideoSourceSSRC", o, ssrc, "lock"))
    \/ /\ AtArg(t, "setVideoSourceSSRC", o, ssrc, "lock")
       /\ ScopedLock(t, "MediaSource")
       /\ video_source_ssrc_list_' =
              IF video_source_ssrc_list_[o] = <<>> THEN video_source_ssrc_list_
              ELSE [video_source_ssrc_list_ EXCEPT ![o] = [@ EXCEPT ![1] = ssrc]]
       /\ Return(t, NoVal, "cs")
       /\ UNCHANGED <<sinkVars, audio_source_ssrc_, video_sink_, audio_sink_,
                      source_fb_sink_, fb_sink_>>
    \/ AtArg(t, "setVideoSourceSSRC", o, ssrc, "cs") /\ Leave(t, "MediaSource")

\* The copy constructor (and copy assignment) of std::vector: the same elements,
\* in the same order, in a vector of its own.
VectorCopy(v) == [i \in 1..Len(v) |-> v[i]]

\* What getVideoSourceSSRCList hands to its caller.  The return type is
\* std::vector<uint32_t>, not a reference: the caller gets a vector of its own
\* (own = TRUE, with its elements), not an alias of o's video_source_ssrc_list_.
ListReturnedByReference(o) == [own |-> FALSE, elems |-> <<>>, of |-> o]

ListReturned(o) == [own |-> TRUE, elems |-> VectorCopy(video_source_ssrc_list_[o]), of |-> o]

\* The elements a caller finds in a vector it was handed.
Contents(r) == IF r.own THEN r.elems ELSE video_source_ssrc_list_[r.of]

\* Copying a vector allocates; when the allocation fails the copy throws
\* std::bad_alloc, the vectors are as before, and the stack unwinds ("throw").
getVideoSourceSSRCList(t, o) ==
    \/ Enter(t, Frame("getVideoSourceSSRCList", o, NoVal, "lock"))
    \/ /\ At(t, "getVideoSourceSSRCList", o, "lock")
       /\ ScopedLock(t, "MediaSource")
       /\ Return(t, ListReturned(o), "cs")
       /\ UNCHANGED fields
    \/ /\ At(t, "getVideoSourceSSRCList", o, "lock")
       /\ ScopedLock(t, "MediaSource")
       /\ Goto(t, "throw")
       /\ UNCHANGED fields
    \/ At(t, "getVideoSourceSSRCList", o, "cs") /\ Leave(t, "MediaSource")
    \/ At(t, "getVideoSourceSSRCList", o, "throw") /\ Leave(t, "MediaSource")

setVideoSourceSSRCList(t, o, new_ssrc_list) ==
    \/ Enter(t, Frame("setVideoSourceSSRCList", o, new_ssrc_list, "lock"))
    \/ /\ AtArg(t, "setVideoSourceSSRCList", o, new_ssrc_list, "lock")
       /\ ScopedLock(t, "MediaSource")
       /\ video_source_ssrc_list_' = [video_source_ssrc_list_ EXCEPT ![o] = VectorCopy(new_ssrc_list)]
       /\ Return(t, NoVal, "cs")
       /\ UNCHANGED <<sinkVars, audio_source_ssrc_, video_sink_, audio_sink_,
                      source_fb_sink_, fb_sink_>>
    \/ /\ AtArg(t, "setVideoSourceSSRCList", o, new_ssrc_list, "lock")
       /\ ScopedLock(t, "MediaSource")
       /\ Goto(t, "throw")
       /\ UNCHANGED fields
    \/ AtArg(t, "setVideoSourceSSRCList", o, new_ssrc_list, "cs") /\ Leave(t, "MediaSource")
    \/ AtArg(t, "setVideoSourceSSRCList", o, new_ssrc_list, "throw") /\ Leave(t, "MediaSource")

getAudioSourceSSRC(t, o) ==
    \/ Enter(t, Frame("getAudioSourceSSRC", o, NoVal, "lock"))
    \/ /\ At(t, "getAudioSourceSSRC", o, "lock")
       /\ ScopedLock(t, "MediaSource")
       /\ \E v \in LoadU32(t, audio_source_ssrc_[o]) : Return(t, v, "cs")
       /\ UNCHANGED fields
    \/ At(t, "getAudioSourceSSRC", o, "cs") /\ Leave(t, "MediaSource")

setAudioSourceSSRC(t, o, ssrc) ==
    \/ Enter(t, Frame("setAudioSourceSSRC", o, ssrc, "lock"))
    \/ /\ AtArg(t, "setAudioSourceSSRC", o, ssrc, "lock")
       /\ ScopedLock(t, "MediaSource")
       /\ audio_source_ssrc_' = [audio_source_ssrc_ EXCEPT ![o] = ssrc]
       /\ Return(t, NoVal, "cs")
       /\ UNCHANGED <<sinkVars, video_source_ssrc_list_, video_sink_, audio_sink_,
                      source_fb_sink_, fb_sink_>>
    \/ AtArg(t, "setAudioSourceSSRC", o, ssrc, "cs") /\ Leave(t, "MediaSource")

\* Unguarded.  std::find_if over the vector: begin() and end() are read, the
\* elements are compared one at a time, and the iterator found is compared with
\* end() read again.  res holds the position of the iterator and the end that
\* was read.  An element read past the current end of the vector, or while a
\* setter is inside its assignment, yields any value.
ElementRead(t, o, i) ==
    IF Race(t) \/ i > Len(video_source_ssrc_list_[o]) THEN U32
    ELSE {video_source_ssrc_list_[o][i]}

FoundFirstOnly(t, o, i, e) == {i = 1 /\ e >= 1}

Found(t, o, i, e) ==
    IF Race(t) THEN BOOLEAN
    ELSE IF Len(video_source_ssrc_list_[o]) # e THEN {i # Len(video_source_ssrc_list_[o]) + 1, TRUE}
    ELSE {i <= e}

isVideoSourceSSRC(t, o, ssrc) ==
    \/ Enter(t, Frame("isVideoSourceSSRC", o, ssrc, "read"))
    \/ /\ AtArg(t, "isVideoSourceSSRC", o, ssrc, "read")
       /\ stack' = [stack EXCEPT ![t] = [@ EXCEPT ![Len(@)] =
                       [@ EXCEPT !.res = <<1, Len(video_source_ssrc_list_[o])>>, !.pc = "scan"]]]
       /\ UNCHANGED <<monitor_mutex_, fields>>
    \/ /\ AtArg(t, "isVideoSourceSSRC", o, ssrc, "scan")
       /\ Top(t).res[1] <= Top(t).res[2]
       /\ \E known_ssrc \in ElementRead(t, o, Top(t).res[1]) :
              IF known_ssrc = ssrc
              THEN \E b \in Found(t, o, Top(t).res[1], Top(t).res[2]) : Return(t, b, "ret")
              ELSE stack' = [stack EXCEPT ![t] = [@ EXCEPT ![Len(@)] =
                                [@ EXCEPT !.res = <<Top(t).res[1] + 1, Top(t).res[2]>>]]]
       /\ UNCHANGED <<monitor_mutex_, fields>>
    \/ /\ AtArg(t, "isVideoSourceSSRC", o, ssrc, "scan")
       /\ Top(t).res[1] > Top(t).res[2]
       /\ \E b \in Found(t, o, Top(t).res[1], Top(t).res[2]) : Return(t, b, "ret")
       /\ UNCHANGED <<monitor_mutex_, fields>>
    \/ /\ AtArg(t, "isVideoSourceSSRC", o, ssrc, "ret")
       /\ Pop(t)
       /\ UNCHANGED <<monitor_mutex_, fields>>

\* Unguarded: return audio_source_ssrc_ == ssrc.
isAudioSourceSSRC(t, o, ssrc) ==
    \/ Enter(t, Frame("isAudioSourceSSRC", o, ssrc, "read"))
    \/ /\ AtArg(t, "isAudioSourceSSRC", o, ssrc, "read")
       /\ \E v \in LoadU32(t, audio_source_ssrc_[o]) : Return(t, v = ssrc, "ret")
       /\ UNCHANGED <<monitor_mutex_, fields>>
    \/ /\ AtArg(t, "isAudioSourceSSRC", o, ssrc, "ret")
       /\ Pop(t)
       /\ UNCHANGED <<monitor_mutex_, fields>>

\* ------------------------------------------------------------ delivery
\* enum packetType, and the dataPacket a shared_ptr points to: the callee gets
\* the pointer, so it sees the very packet the caller holds.
packetType == {"VIDEO_PACKET", "AUDIO_PACKET", "OTHER_PACKET"}

Packet(type) == [comp |-> 1, data |-> <<128, 96>>, length |-> 2, type |-> type]

Packets == {Packet(type) : type \in packetType}

\* The int an overridable implementation returns: its meaning is the
\* implementation's (a negative error code, a count of bytes).
StatusCodes == {-1, 2}

\* MediaSink::deliverVideoData: return this->deliverVideoData_(data_packet).
deliverVideoDataToAudioImpl(t, o, data_packet) ==
    \/ /\ Idle(t)
       /\ Invoke(t, Frame("deliverVideoData", o, data_packet, "call"))
       /\ UNCHANGED <<monitor_mutex_, fields>>
    \/ /\ AtArg(t, "deliverVideoData", o, data_packet, "call")
       /\ Top(t).n = 0
       /\ Invoke(t, Frame("deliverAudioData_", o, data_packet, "body"))
       /\ UNCHANGED <<monitor_mutex_, fields>>
    \/ /\ AtArg(t, "deliverVideoData", o, data_packet, "call")
       /\ Top(t).n = 1
       /\ Return(t, Top(t).res, "ret")
       /\ UNCHANGED <<monitor_mutex_, fields>>
    \/ /\ AtArg(t, "deliverVideoData", o, data_packet, "ret")
       /\ Pop(t)
       /\ UNCHANGED <<monitor_mutex_, fields>>

\* The same method written with the guard held across the call.
deliverVideoDataLocked(t, o, data_packet) ==
    \/ /\ Idle(t)
       /\ Invoke(t, Frame("deliverVideoData", o, data_packet, "call"))
       /\ UNCHANGED <<monitor_mutex_, fields>>
    \/ /\ AtArg(t, "deliverVideoData", o, data_packet, "call")
       /\ Top(t).n = 0
       /\ monitor_mutex_[MonitorOf(o, "MediaSink")] = Free
       /\ monitor_mutex_' = [monitor_mutex_ EXCEPT ![MonitorOf(o, "MediaSink")] = t]
       /\ Invoke(t, Frame("deliverVideoData_", o, data_packet, "body"))
       /\ UNCHANGED fields
    \/ /\ AtArg(t, "deliverVideoData", o, data_packet, "call")
       /\ Top(t).n = 1
       /\ Return(t, Top(t).res, "ret")
       /\ UNCHANGED <<monitor_mutex_, fields>>
    \/ /\ AtArg(t, "deliverVideoData", o, data_packet, "ret")
       /\ monitor_mutex_' = [monitor_mutex_ EXCEPT ![MonitorOf(o, "MediaSink")] = Free]
       /\ Pop(t)
       /\ UNCHANGED fields

deliverVideoData(t, o, data_packet) ==
    \/ /\ Idle(t)
       /\ Invoke(t, Frame("deliverVideoData", o, data_packet, "call"))
       /\ UNCHANGED <<monitor_mutex_, fields>>
    \/ /\ AtArg(t, "deliverVideoData", o, data_packet, "call")
       /\ Top(t).n = 0
       /\ Invoke(t, Frame("deliverVideoData_", o, data_packet, "body"))
       /\ UNCHANGED <<monitor_mutex_, fields>>
    \/ /\ AtArg(t, "deliverVideoData", o, data_packet, "call")
       /\ Top(t).n = 1
       /\ Return(t, Top(t).res, "ret")
       /\ UNCHANGED <<monitor_mutex_, fields>>
    \/ /\ AtArg(t, "deliverVideoData", o, data_packet, "ret")
       /\ Pop(t)
       /\ UNCHANGED <<monitor_mutex_, fields>>

deliverAudioData(t, o, data_packet) ==
    \/ /\ Idle(t)
       /\ Invoke(t, Frame("deliverAudioData", o, data_packet, "call"))
       /\ UNCHANGED <<monitor_mutex_, fields>>
    \/ /\ AtArg(t, "deliverAudioData", o, data_packet, "call")
       /\ Top(t).n = 0
       /\ Invoke(t, Frame("deliverAudioData_", o, data_packet, "body"))
       /\ UNCHANGED <<monitor_mutex_, fields>>
    \/ /\ AtArg(t, "deliverAudioData", o, data_packet, "call")
       /\ Top(t).n = 1
       /\ Return(t, Top(t).res, "ret")
       /\ UNCHANGED <<monitor_mutex_, fields>>
    \/ /\ AtArg(t, "deliverAudioData", o, data_packet, "ret")
       /\ Pop(t)
       /\ UNCHANGED <<monitor_mutex_, fields>>

\* The pure virtual deliverVideoData_ / deliverAudioData_: whatever a subclass
\* writes.  While at "body" it may call public methods (CanCall), up to
\* MaxReenter of them; it returns any status to the deliver method.
deliverVideoData_(t, o, data_packet) ==
    /\ AtArg(t, "deliverVideoData_", o, data_packet, "body")
    /\ \E status \in StatusCodes :
           stack' = [stack EXCEPT ![t] = Popped([@ EXCEPT ![Len(@)] = [@ EXCEPT !.ret = status]])]
    /\ UNCHANGED <<monitor_mutex_, fields>>

deliverAudioData_(t, o, data_packet) ==
    /\ AtArg(t, "deliverAudioData_", o, data_packet, "body")
    /\ \E status \in StatusCodes :
           stack' = [stack EXCEPT ![t] = Popped([@ EXCEPT ![Len(@)] = [@ EXCEPT !.ret = status]])]
    /\ UNCHANGED <<monitor_mutex_, fields>>

\* A MediaSource forwarding a packet it produced to its attached sink, as the
\* concurrency and error-handling sections require of the subclasses: the sink
\* reference is read under the guard, null-checked, and the delivery call is made
\* after the guard is released.
ForwardOp(kind) == IF kind = "Video" THEN "forwardVideo" ELSE "forwardAudio"

AttachedSink(o, kind) == IF kind = "Video" THEN video_sink_[o] ELSE audio_sink_[o]

SourceDeliver(t, o, kind, data_packet) ==
    \/ /\ Idle(t)
       /\ Invoke(t, Frame(ForwardOp(kind), o, data_packet, "lock"))
       /\ UNCHANGED <<monitor_mutex_, fields>>
    \/ /\ AtArg(t, ForwardOp(kind), o, data_packet, "lock")
       /\ ScopedLock(t, "MediaSource")
       /\ stack' = [stack EXCEPT ![t] = [@ EXCEPT ![Len(@)] =
                       [@ EXCEPT !.res = AttachedSink(o, kind), !.pc = "cs"]]]
       /\ UNCHANGED fields
    \/ /\ AtArg(t, ForwardOp(kind), o, data_packet, "cs")
       /\ monitor_mutex_' = [monitor_mutex_ EXCEPT ![MonitorOf(o, "MediaSource")] = Free]
       /\ Goto(t, "unlocked")
       /\ UNCHANGED fields
    \/ /\ AtArg(t, ForwardOp(kind), o, data_packet, "unlocked")
       /\ Top(t).n = 0
       /\ Top(t).res = nullptr
       /\ Return(t, NoVal, "ret")
       /\ UNCHANGED <<monitor_mutex_, fields>>
    \/ /\ AtArg(t, ForwardOp(kind), o, data_packet, "unlocked")
       /\ Top(t).n = 0
       /\ Top(t).res # nullptr
       /\ Invoke(t, Frame(IF kind = "Video" THEN "deliverVideoData" ELSE "deliverAudioData",
                          Top(t).res, data_packet, "call"))
       /\ UNCHANGED <<monitor_mutex_, fields>>
    \/ /\ AtArg(t, ForwardOp(kind), o, data_packet, "unlocked")
       /\ Top(t).n = 1
       /\ Return(t, Top(t).res, "ret")
       /\ UNCHANGED <<monitor_mutex_, fields>>
    \/ /\ AtArg(t, ForwardOp(kind), o, data_packet, "ret")
       /\ Pop(t)
       /\ UNCHANGED <<monitor_mutex_, fields>>

\* ------------------------------------------------------------ feedback
\* FeedbackSource::setFeedbackSink: fb_sink_ = sink, with no guard.
setFeedbackSink(t, o, sink) ==
    \/ Enter(t, Frame("setFeedbackSink", o, sink, "write"))
    \/ /\ AtArg(t, "setFeedbackSink", o, sink, "write")
       /\ fb_sink_' = [fb_sink_ EXCEPT ![o] = sink]
       /\ Pop(t)
       /\ UNCHANGED <<monitor_mutex_, sinkVars, sourceVars>>

\* virtual ~FeedbackSink() {}: the object is gone; no FeedbackSource is told.
DestroyFeedbackSink(t, x) ==
    /\ Idle(t)
    /\ x \notin destroyed
    /\ destroyed' = destroyed \cup {x}
    /\ UNCHANGED <<monitor_mutex_, fields, stack>>

\* FeedbackSink::deliverFeedback: return this->deliverFeedback_(data_packet).
deliverFeedbackDropsStatus(t, o, data_packet) ==
    \/ /\ Idle(t)
       /\ Invoke(t, Frame("deliverFeedback", o, data_packet, "call"))
       /\ UNCHANGED <<monitor_mutex_, fields>>
    \/ /\ AtArg(t, "deliverFeedback", o, data_packet, "call")
       /\ Top(t).n = 0
       /\ Invoke(t, Frame("deliverFeedback_", o, data_packet, "body"))
       /\ UNCHANGED <<monitor_mutex_, fields>>
    \/ /\ AtArg(t, "deliverFeedback", o, data_packet, "call")
       /\ Top(t).n = 1
       /\ Return(t, 0, "ret")
       /\ UNCHANGED <<monitor_mutex_, fields>>
    \/ /\ AtArg(t, "deliverFeedback", o, data_packet, "ret")
       /\ Pop(t)
       /\ UNCHANGED <<monitor_mutex_, fields>>

deliverFeedback(t, o, data_packet) ==
    \/ /\ Idle(t)
       /\ Invoke(t, Frame("deliverFeedback", o, data_packet, "call"))
       /\ UNCHANGED <<monitor_mutex_, fields>>
    \/ /\ AtArg(t, "deliverFeedback", o, data_packet, "call")
       /\ Top(t).n = 0
       /\ Invoke(t, Frame("deliverFeedback_", o, data_packet, "body"))
       /\ UNCHANGED <<monitor_mutex_, fields>>
    \/ /\ AtArg(t, "deliverFeedback", o, data_packet, "call")
       /\ Top(t).n = 1
       /\ Return(t, Top(t).res, "ret")
       /\ UNCHANGED <<monitor_mutex_, fields>>
    \/ /\ AtArg(t, "deliverFeedback", o, data_packet, "ret")
       /\ Pop(t)
       /\ UNCHANGED <<monitor_mutex_, fields>>

\* The pure virtual deliverFeedback_.
deliverFeedback_(t, o, data_packet) ==
    /\ AtArg(t, "deliverFeedback_", o, data_packet, "body")
    /\ \E status \in StatusCodes :
           stack' = [stack EXCEPT ![t] = Popped([@ EXCEPT ![Len(@)] = [@ EXCEPT !.ret = status]])]
    /\ UNCHANGED <<monitor_mutex_, fields>>

\* A sink emitting a feedback packet through its FeedbackSource, as the
\* error-handling section requires of the callers: fb_sink_ is read and
\* null-checked, and deliverFeedback is called on the destination.
EmitFeedback(t, o, data_packet) ==
    \/ /\ Idle(t)
       /\ Invoke(t, Frame("emitFeedback", o, data_packet, "read"))
       /\ UNCHANGED <<monitor_mutex_, fields>>
    \/ /\ AtArg(t, "emitFeedback", o, data_packet, "read")
       /\ stack' = [stack EXCEPT ![t] = [@ EXCEPT ![Len(@)] =
                       [@ EXCEPT !.res = fb_sink_[o], !.pc = "checked"]]]
       /\ UNCHANGED <<monitor_mutex_, fields>>
    \/ /\ AtArg(t, "emitFeedback", o, data_packet, "checked")
       /\ Top(t).n = 0
       /\ Top(t).res = nullptr
       /\ Return(t, NoVal, "ret")
       /\ UNCHANGED <<monitor_mutex_, fields>>
    \/ /\ AtArg(t, "emitFeedback", o, data_packet, "checked")
       /\ Top(t).n = 0
       /\ Top(t).res # nullptr
       /\ Invoke(t, Frame("deliverFeedback", Top(t).res, data_packet, "call"))
       /\ UNCHANGED <<monitor_mutex_, fields>>
    \/ /\ AtArg(t, "emitFeedback", o, data_packet, "checked")
       /\ Top(t).n = 1
       /\ Return(t, Top(t).res, "ret")
       /\ UNCHANGED <<monitor_mutex_, fields>>
    \/ /\ AtArg(t, "emitFeedback", o, data_packet, "ret")
       /\ Pop(t)
       /\ UNCHANGED <<monitor_mutex_, fields>>

\* ------------------------------------------------------------ struct dataPacket
\* char data[1500].
Capacity == 1500

\* The bytes are 0..255; a byte memcpy read past the end of the caller's
\* buffer holds no known value.
IndeterminateByte == 255 + 1

Min(a, b) == IF a < b THEN a ELSE b

\* The first n bytes at data_: those of the caller's buffer, then whatever
\* lies behind it.
SourceBytes(n) ==
    SubSeq(buf, 1, Min(n, Len(buf))) \o [i \in 1..(n - Len(buf)) |-> IndeterminateByte]

\* memcpy(data, data_, length_), as far as it stays inside data.  The field data
\* of the model is the part of the array that has been written; the elements
\* after it are uninitialised.
MemcpyShort(length_) == SourceBytes(Min(length_ - 1, Capacity))

Memcpy(length_) == SourceBytes(Min(length_, Capacity))

NewPacketWithoutLength(comp_, length_, type_, received_time_ms_) ==
    [comp |-> comp_,
     data |-> Memcpy(length_),
     length |-> 0,
     type |-> type_,
     received_time_ms |-> received_time_ms_,
     compatible_spatial_layers |-> <<>>,
     compatible_temporal_layers |-> <<>>,
     is_keyframe |-> FALSE]

NewPacket(comp_, length_, type_, received_time_ms_) ==
    [comp |-> comp_,
     data |-> Memcpy(length_),
     length |-> length_,
     type |-> type_,
     received_time_ms |-> received_time_ms_,
     compatible_spatial_layers |-> <<>>,
     compatible_temporal_layers |-> <<>>,
     is_keyframe |-> FALSE]

\* The lengths callers pass, the times the clock shows.
MaxPayload == 2

LengthArgs == {-1} \cup (0..MaxPayload) \cup {Capacity, Capacity + 1}

Times == {0, 1}

\* The constructors check nothing.  With length_ < 0 (a huge size_t) or
\* length_ > 1500 memcpy writes outside data: the program may crash (no
\* packet), or go on with a packet whose length is the one passed or whatever
\* the bytes written over it make it (here: a negative number or zero).
Constructed(comp_, length_, type_, received_time_ms_) ==
    IF length_ < 0 \/ length_ > Capacity
    THEN {<<>>} \cup {<<[NewPacket(comp_, length_, type_, received_time_ms_) EXCEPT !.length = l]>> :
                        l \in {length_, -1, 0}}
    ELSE {<<NewPacket(comp_, length_, type_, received_time_ms_)>>}

Graph == <<monitor_mutex_, fields, stack, destroyed>>

\* dataPacket(comp_, data_, length_, type_, received_time_ms_)
dataPacket5(comp_, length_, type_, received_time_ms_) ==
    /\ pkt' \in Constructed(comp_, length_, type_, received_time_ms_)
    /\ answer' = <<>>
    /\ UNCHANGED <<buf, Graph>>

\* dataPacket(comp_, data_, length_, type_), called when the clock shows now.
dataPacket4(comp_, length_, type_, now) ==
    /\ pkt' \in Constructed(comp_, length_, type_, now)
    /\ answer' = <<>>
    /\ UNCHANGED <<buf, Graph>>

\* dataPacket(comp_, data_, length_), called when the clock shows now.
dataPacket3(comp_, length_, now) ==
    /\ pkt' \in Constructed(comp_, length_, "VIDEO_PACKET", now)
    /\ answer' = <<>>
    /\ UNCHANGED <<buf, Graph>>

\* std::find(v.begin(), v.end(), x): the position of the first element equal
\* to x, Len(v) + 1 (end) if there is none.
RECURSIVE FindFrom(_, _, _)
FindFrom(v, x, i) ==
    IF i > Len(v) THEN Len(v) + 1
    ELSE IF v[i] = x THEN i
    ELSE FindFrom(v, x, i + 1)

FindSkipsFirst(v, x) == FindFrom(v, x, 2)

Find(v, x) == FindFrom(v, x, 1)

belongsToSpatialLayer(spatial_layer_) ==
    /\ Len(pkt) = 1
    /\ answer' = <<[op |-> "belongsToSpatialLayer",
                    index |-> spatial_layer_,
                    result |-> Find(pkt[1].compatible_spatial_layers, spatial_layer_)
                                   # Len(pkt[1].compatible_spatial_layers) + 1,
                    before |-> pkt[1]]>>
    /\ UNCHANGED <<pkt, buf, Graph>>

belongsToTemporalLayer(temporal_layer_) ==
    /\ Len(pkt) = 1
    /\ answer' = <<[op |-> "belongsToTemporalLayer",
                    index |-> temporal_layer_,
                    result |-> Find(pkt[1].compatible_temporal_layers, temporal_layer_)
                                   # Len(pkt[1].compatible_temporal_layers) + 1,
                    before |-> pkt[1]]>>
    /\ UNCHANGED <<pkt, buf, Graph>>

\* The public fields compatible_spatial_layers / compatible_temporal_layers are
\* assigned by the collaborators that fill the packet in.
AssignLayers(dimension, layers) ==
    /\ Len(pkt) = 1
    /\ pkt' = IF dimension = "spatial"
              THEN <<[pkt[1] EXCEPT !.compatible_spatial_layers = layers]>>
              ELSE <<[pkt[1] EXCEPT !.compatible_temporal_layers = layers]>>
    /\ answer' = <<>>
    /\ UNCHANGED <<buf, Graph>>

\* The collaborator's buffer: filled with what it received, and written again
\* after a packet was made from it.
FillBuffer(b) ==
    /\ buf' = b
    /\ answer' = <<>>
    /\ UNCHANGED <<pkt, Graph>>

Scribble ==
    /\ Len(buf) >= 1
    /\ buf[1] # 255
    /\ buf' = [buf EXCEPT ![1] = 255]
    /\ answer' = <<>>
    /\ UNCHANGED <<pkt, Graph>>

\* ------------------------------------------------------------ construction
\* FeedbackSource(), MediaSink(), MediaSource(); every mutex free, no thread in a call.
InitObjects ==
    /\ monitor_mutex_ = [m \in Monitors |-> Free]
    /\ audio_sink_ssrc_ = [o \in Sinks |-> 0]
    /\ video_sink_ssrc_ = [o \in Sinks |-> 0]
    /\ sink_fb_source_ = [o \in Sinks |-> nullptr]
    /\ audio_source_ssrc_ = [o \in Sources |-> 0]
    /\ video_source_ssrc_list_ = [o \in Sources |-> <<0>>]
    /\ video_sink_ = [o \in Sources |-> nullptr]
    /\ audio_sink_ = [o \in Sources |-> nullptr]
    /\ source_fb_sink_ = [o \in Sources |-> nullptr]
    /\ fb_sink_ = [o \in FeedbackSources |-> nullptr]
    /\ stack = [t \in Threads |-> <<>>]
    /\ pkt = <<>>
    /\ buf = <<>>
    /\ answer = <<>>
    /\ destroyed = {}

\* ------------------------------------------------------------ the guard discipline
\* Threads of outside collaborators call every guarded method of the relay R, the
\* object that is a MediaSink and a MediaSource at once.  Each setter is called
\* with one argument: the discipline does not depend on the values.
GuardSSRC == 1

NoAttachHistory == lastSet = [k \in {"Video", "Audio", "Feedback"} |-> nullptr] /\ may = [t \in Threads |-> {}]

NoHistory == fut = <<"R", "none">> /\ written = {} /\ snap = <<>> /\ NoAttachHistory

Init == InitObjects /\ NoHistory

Plain(A) == A /\ UNCHANGED <<histVars, pktVars, destroyed>>

Next ==
    \E t \in Threads :
        \/ Plain(getVideoSinkSSRC(t, "R"))
        \/ Plain(setVideoSinkSSRC(t, "R", GuardSSRC))
        \/ Plain(getAudioSinkSSRC(t, "R"))
        \/ Plain(setAudioSinkSSRC(t, "R", GuardSSRC))
        \/ Plain(getFeedbackSource(t, "R"))
        \/ Plain(setAudioSink(t, "R", nullptr))
        \/ Plain(setVideoSink(t, "R", "A"))
        \/ Plain(getFeedbackSink(t, "R"))
        \/ Plain(getVideoSourceSSRC(t, "R"))
        \/ Plain(setVideoSourceSSRC(t, "R", GuardSSRC))
        \/ Plain(getVideoSourceSSRCList(t, "R"))
        \/ Plain(setVideoSourceSSRCList(t, "R", <<GuardSSRC>>))
        \/ Plain(getAudioSourceSSRC(t, "R"))
        \/ Plain(setAudioSourceSSRC(t, "R", GuardSSRC))

Spec == Init /\ [][Next]_vars

SinkGuarded ==
    {"getVideoSinkSSRC", "setVideoSinkSSRC", "getAudioSinkSSRC", "setAudioSinkSSRC",
     "getFeedbackSource"}

SourceGuarded ==
    {"setAudioSink", "setVideoSink", "getFeedbackSink", "getVideoSourceSSRC",
     "setVideoSourceSSRC", "getVideoSourceSSRCList", "setVideoSourceSSRCList",
     "getAudioSourceSSRC", "setAudioSourceSSRC"}

\* Thread t is between the scoped_lock and the end of the scope of one of the
\* methods `ops` of object o (its return value computed, or unwinding a throw).
InCS(t, o, ops) ==
    \E i \in 1..Len(stack[t]) :
        /\ stack[t][i].op \in ops
        /\ stack[t][i].this = o
        /\ stack[t][i].pc \in {"cs", "throw"}

Waiting(t, o, ops) ==
    /\ ~Idle(t)
    /\ Top(t).op \in ops
    /\ Top(t).this = o
    /\ Top(t).pc = "lock"

\* C5: every guarded getter and setter holds the Concurrency Guard while it is in
\* its critical section and has released it when it is left: per object at most
\* one thread is inside a guarded access, the thread inside owns the object's
\* mutex, and the mutex is free whenever no guarded access is in progress.
C5_GuardHeldExactlyInCS ==
    \A o \in Objects :
        /\ Cardinality({t \in Threads : InCS(t, o, SinkGuarded \cup SourceGuarded)}) <= 1
        /\ \A t \in Threads :
               /\ InCS(t, o, SinkGuarded) => monitor_mutex_[MonitorOf(o, "MediaSink")] = t
               /\ InCS(t, o, SourceGuarded) => monitor_mutex_[MonitorOf(o, "MediaSource")] = t
        /\ (\A t \in Threads : ~InCS(t, o, SinkGuarded \cup SourceGuarded))
               => \A cls \in {"MediaSink", "MediaSource"} : monitor_mutex_[MonitorOf(o, cls)] = Free

\* One thread unwinds a throw inside the critical section while another waits for
\* the same guard.
C5_Witness ==
    \E t, u \in Threads :
        /\ t # u
        /\ InCS(t, "R", SourceGuarded)
        /\ Top(t).pc = "throw"
        /\ Waiting(u, "R", SinkGuarded \cup SourceGuarded)

\* C6: on an object that is a MediaSink and a MediaSource, a guarded MediaSink
\* method and a guarded MediaSource method are never in their critical sections
\* at the same time.
C6_OneGuardForBothRoles ==
    \A o \in Sinks \cap Sources :
        \A t, u \in Threads :
            ~(t # u /\ InCS(t, o, SinkGuarded) /\ InCS(u, o, SourceGuarded))

\* A MediaSink setter is in its critical section on R while a MediaSource setter
\* of R waits for the guard.
C6_Witness ==
    \E t, u \in Threads :
        /\ t # u
        /\ InCS(t, "R", {"setVideoSinkSSRC"})
        /\ Waiting(u, "R", {"setVideoSourceSSRCList"})

\* ------------------------------------------------------------ the SSRC accessors
\* Writer threads call the setter of one SSRC field with the values 1..MaxSSRC,
\* reader threads call its guarded getter, and, for the MediaSink fields, the
\* unguarded is...SinkSSRC.  fut is the field exercised; written records every
\* value passed to its setter.
FieldsUnderTest ==
    (Sinks \X {"video_sink_ssrc_", "audio_sink_ssrc_"})
        \cup (Sources \X {"video_source_ssrc_list_", "audio_source_ssrc_"})

WriterValues == 1..MaxSSRC

InitSSRC == InitObjects /\ fut \in FieldsUnderTest /\ written = {} /\ snap = <<>> /\ NoAttachHistory

Reads(A) == A /\ UNCHANGED <<histVars, pktVars, destroyed>>

Writes(A, v) == A /\ written' = written \cup {v} /\ UNCHANGED <<fut, snap, lastSet, may, pktVars, destroyed>>

NextSSRC ==
    \E t \in Threads :
        \/ \E o \in Sinks :
               fut = <<o, "video_sink_ssrc_">> /\ Reads(getVideoSinkSSRC(t, o))
        \/ \E o \in Sinks, v \in WriterValues :
               fut = <<o, "video_sink_ssrc_">> /\ Writes(setVideoSinkSSRC(t, o, v), v)
        \/ \E o \in Sinks, v \in WriterValues :
               fut = <<o, "video_sink_ssrc_">> /\ Reads(isVideoSinkSSRC(t, o, v))
        \/ \E o \in Sinks :
               fut = <<o, "audio_sink_ssrc_">> /\ Reads(getAudioSinkSSRC(t, o))
        \/ \E o \in Sinks, v \in WriterValues :
               fut = <<o, "audio_sink_ssrc_">> /\ Writes(setAudioSinkSSRC(t, o, v), v)
        \/ \E o \in Sinks, v \in WriterValues :
               fut = <<o, "audio_sink_ssrc_">> /\ Reads(isAudioSinkSSRC(t, o, v))
        \/ \E o \in Sources :
               fut = <<o, "video_source_ssrc_list_">> /\ Reads(getVideoSourceSSRC(t, o))
        \/ \E o \in Sources, v \in WriterValues :
               fut = <<o, "video_source_ssrc_list_">> /\ Writes(setVideoSourceSSRC(t, o, v), v)
        \/ \E o \in Sources :
               fut = <<o, "audio_source_ssrc_">> /\ Reads(getAudioSourceSSRC(t, o))
        \/ \E o \in Sources, v \in WriterValues :
               fut = <<o, "audio_source_ssrc_">> /\ Writes(setAudioSourceSSRC(t, o, v), v)

SpecSSRC == InitSSRC /\ [][NextSSRC]_vars

SSRCGetters ==
    {"getVideoSinkSSRC", "getAudioSinkSSRC", "getVideoSourceSSRC", "getAudioSourceSSRC"}

SSRCSetters ==
    {"setVideoSinkSSRC", "setAudioSinkSSRC", "setVideoSourceSSRC", "setAudioSourceSSRC"}

\* C1: whatever the interleaving of the writers and the readers, the value a
\* guarded getter returns is the initial 0 or a value passed to the matching setter.
C1_GetterReturnsWrittenValue ==
    \A t \in Threads :
        (~Idle(t) /\ Top(t).op \in SSRCGetters /\ Top(t).pc = "cs")
            => Top(t).ret \in {0} \cup written

\* A getter returns the second value written while a writer waits for the guard
\* and both values have been passed to the setter.
C1_Witness ==
    \E t, u \in Threads :
        /\ ~Idle(t) /\ Top(t).op \in SSRCGetters /\ Top(t).pc = "cs"
        /\ Top(t).ret = MaxSSRC
        /\ written = WriterValues
        /\ ~Idle(u) /\ Top(u).op \in SSRCSetters /\ Top(u).pc = "lock"

\* Thread t is inside an access of a MediaSink SSRC field of o by one of `ops`.
TouchesSinkSSRC(t, o, ops) ==
    /\ ~Idle(t)
    /\ Top(t).op \in ops
    /\ (Accessing(t, o, "video_sink_ssrc_") \/ Accessing(t, o, "audio_sink_ssrc_"))

SinkSSRCOps ==
    {"getVideoSinkSSRC", "setVideoSinkSSRC", "getAudioSinkSSRC", "setAudioSinkSSRC",
     "isVideoSinkSSRC", "isAudioSinkSSRC"}

\* C7 as stated: every thread touching audio_sink_ssrc_ or video_sink_ssrc_,
\* through any public method, isVideoSinkSSRC and isAudioSinkSSRC included, holds
\* the MediaSink's guard.
C7_Original_AllSinkSSRCAccessGuarded ==
    \A t \in Threads : \A o \in Sinks :
        TouchesSinkSSRC(t, o, SinkSSRCOps) => monitor_mutex_[MonitorOf(o, "MediaSink")] = t

\* C7 amended: every thread touching audio_sink_ssrc_ or video_sink_ssrc_ through
\* getVideoSinkSSRC, setVideoSinkSSRC, getAudioSinkSSRC or setAudioSinkSSRC holds
\* the MediaSink's guard (isVideoSinkSSRC and isAudioSinkSSRC read without it).
C7_GuardedSinkSSRCAccess ==
    \A t \in Threads : \A o \in Sinks :
        TouchesSinkSSRC(t, o, SinkSSRCOps \ {"isVideoSinkSSRC", "isAudioSinkSSRC"})
            => monitor_mutex_[MonitorOf(o, "MediaSink")] = t

\* A setter holds the guard inside its write while isVideoSinkSSRC is at its read.
C7_Witness ==
    \E t, u \in Threads :
        /\ TouchesSinkSSRC(t, "A", {"setVideoSinkSSRC"})
        /\ monitor_mutex_[MonitorOf("A", "MediaSink")] = t
        /\ TouchesSinkSSRC(u, "A", {"isVideoSinkSSRC"})

\* ------------------------------------------------------------ the SSRC list
\* Threads call the accessors of R's video_source_ssrc_list_.  The lists passed to
\* setVideoSourceSSRCList are the simulcast lists <<1, ..., n>>, n <= MaxLen, the
\* empty one among them.  snap keeps the list most recently returned by
\* getVideoSourceSSRCList together with its elements at the return.
ListArgs == {[i \in 1..n |-> i] : n \in 0..MaxLen}

InitList == InitObjects /\ NoHistory

Keeps(A, t) ==
    /\ A
    /\ snap' = IF ~Idle(t) /\ Top(t).op = "getVideoSourceSSRCList" /\ Top(t).pc = "cs"
               THEN <<[handle |-> Top(t).ret, elems |-> Contents(Top(t).ret)]>>
               ELSE snap
    /\ UNCHANGED <<fut, written, lastSet, may, pktVars, destroyed>>

NextList ==
    \E t \in Threads :
        \/ Keeps(getVideoSourceSSRCList(t, "R"), t)
        \/ \E l \in ListArgs : Plain(setVideoSourceSSRCList(t, "R", l))
        \/ \E v \in WriterValues : Plain(setVideoSourceSSRC(t, "R", v))
        \/ Plain(getVideoSourceSSRC(t, "R"))

SpecList == InitList /\ [][NextList]_vars

\* C2 as stated: after any sequence of public operations, setVideoSourceSSRCList
\* with the empty list among them, video_source_ssrc_list_ has at least one element.
C2_Original_ListNeverEmpty ==
    \A o \in Sources : Len(video_source_ssrc_list_[o]) >= 1

\* C4: the sequence getVideoSourceSSRCList returns equals the live list at the
\* instant of the copy (inside the critical section), and the sequence a caller
\* was handed keeps the elements it had at the return, whatever is set later.
C4_ListIsSnapshot ==
    /\ \A t \in Threads : \A o \in Sources :
           At(t, "getVideoSourceSSRCList", o, "cs")
               => Contents(Top(t).ret) = video_source_ssrc_list_[o]
    /\ Len(snap) = 1 => Contents(snap[1].handle) = snap[1].elems

\* A caller holds a returned two-element list while the live list has been
\* replaced by another one and then had its element 0 overwritten.
C4_Witness ==
    /\ Len(snap) = 1
    /\ Len(snap[1].elems) = 2
    /\ video_source_ssrc_list_["R"] # snap[1].elems
    /\ Len(video_source_ssrc_list_["R"]) = 1
    /\ video_source_ssrc_list_["R"][1] = MaxSSRC

\* ------------------------------------------------------------ delivery to the attached sinks
\* Threads attach A to R and detach it while R forwards packets to the sink it
\* has attached; the sink's implementation may call back into the setters of R.
\* The kind of media (video or audio) is chosen at the start.
\* lastSet[kind] is the argument of the latest setVideoSink / setAudioSink that
\* reached its assignment; may[t] collects, for the delivery thread t is making,
\* the sink attached when it began and the argument of every setter call that
\* was pending then or was made since.
Kinds == {"Video", "Audio"}

SetterOf(kind) ==
    CASE kind = "Video" -> "setVideoSink"
      [] kind = "Audio" -> "setAudioSink"
      [] kind = "Feedback" -> "setFeedbackSink"

KindOf(op) ==
    CASE op \in {"forwardVideo", "setVideoSink"} -> "Video"
      [] op \in {"forwardAudio", "setAudioSink"} -> "Audio"
      [] op \in {"emitFeedback", "setFeedbackSink"} -> "Feedback"

Forwarding(s) == s # <<>> /\ s[1].op \in {"forwardVideo", "forwardAudio", "emitFeedback"}

PendingSetters(kind) ==
    UNION {{stack[u][i].arg : i \in {j \in 1..Len(stack[u]) :
                                       /\ stack[u][j].op = SetterOf(kind)
                                       /\ stack[u][j].pc \in {"lock", "write"}}} : u \in Threads}

CalledSetters(kind) ==
    {stack'[u][Len(stack'[u])].arg : u \in {p \in Threads :
        /\ Len(stack'[p]) = Len(stack[p]) + 1
        /\ stack'[p][Len(stack'[p])].op = SetterOf(kind)}}

Assigned(kind) ==
    {Top(u).arg : u \in {p \in Threads :
        /\ ~Idle(p)
        /\ Top(p).op = SetterOf(kind)
        /\ Top(p).pc \in {"lock", "write"}
        /\ stack'[p] # stack[p]}}

Tracked(A) ==
    /\ A
    /\ lastSet' = [kind \in DOMAIN lastSet |->
                      IF Assigned(kind) = {} THEN lastSet[kind]
                      ELSE CHOOSE x \in Assigned(kind) : TRUE]
    /\ may' = [t \in Threads |->
                  IF ~Forwarding(stack'[t]) THEN {}
                  ELSE IF ~Forwarding(stack[t])
                       THEN {lastSet[KindOf(stack'[t][1].op)]}
                                \cup PendingSetters(KindOf(stack'[t][1].op))
                       ELSE may[t] \cup CalledSetters(KindOf(stack[t][1].op))]
    /\ UNCHANGED <<fut, written, snap, pktVars, destroyed>>

InitDeliver ==
    /\ InitObjects
    /\ fut \in {"R"} \X Kinds
    /\ written = {}
    /\ snap = <<>>
    /\ NoAttachHistory

NextDeliver ==
    \E t \in Threads :
        \/ \E x \in {nullptr, "A"} : fut[2] = "Video" /\ Tracked(setVideoSink(t, "R", x))
        \/ \E x \in {nullptr, "A"} : fut[2] = "Audio" /\ Tracked(setAudioSink(t, "R", x))
        \/ Tracked(SourceDeliver(t, "R", fut[2], Packet("VIDEO_PACKET")))
        \/ fut[2] = "Video" /\ ~Idle(t) /\ Tracked(deliverVideoData(t, "A", Packet("VIDEO_PACKET")))
        \/ fut[2] = "Audio" /\ ~Idle(t) /\ Tracked(deliverAudioData(t, "A", Packet("VIDEO_PACKET")))
        \/ Tracked(deliverVideoData_(t, "A", Packet("VIDEO_PACKET")))
        \/ Tracked(deliverAudioData_(t, "A", Packet("VIDEO_PACKET")))

SpecDeliver == InitDeliver /\ [][NextDeliver]_vars

\* C3: a delivery never reads, and never calls, a sink other than the one that
\* was attached when the delivery began or one passed to a setter call that was
\* pending then or made since.  So once setVideoSink(S) (or setAudioSink(S)) and
\* then the setter with nullptr have completed, a delivery that begins
\* afterwards does not dereference S unless S is attached again.
C3_NoDeliveryToDetachedSink ==
    \A t \in Threads :
        Forwarding(stack[t]) =>
            /\ stack[t][1].pc \in {"cs", "unlocked"} /\ stack[t][1].n = 0
                   => stack[t][1].res \in may[t]
            /\ Len(stack[t]) >= 2 => stack[t][2].this \in may[t]

\* A was attached (a delivery that began then is still inside A's
\* implementation), the detach has completed, and a delivery that began after it
\* has read the null reference.
C3_Witness ==
    \E t, u \in Threads :
        /\ t # u
        /\ Forwarding(stack[u])
        /\ Len(stack[u]) >= 3
        /\ stack[u][2].this = "A"
        /\ Forwarding(stack[t])
        /\ stack[t][1].pc = "unlocked"
        /\ stack[t][1].res = nullptr
        /\ may[t] = {nullptr}
        /\ lastSet[KindOf(stack[t][1].op)] = nullptr
        /\ PendingSetters(KindOf(stack[t][1].op)) = {}

\* ------------------------------------------------------------ delivery into a sink
\* Collaborators deliver packets to one sink (A, or R which is a source and a
\* feedback sink as well) through deliverVideoData, deliverAudioData or
\* deliverFeedback; the sink, the method and the type of the packets are chosen
\* at the start.  The implementation calls back into the guarded getter and
\* setter of the sink's video SSRC, which other threads call too.
InitSink ==
    /\ InitObjects
    /\ fut \in (Sinks \X Kinds \X packetType) \cup (FeedbackSinks \X {"Feedback"} \X packetType)
    /\ written = {}
    /\ snap = <<>>
    /\ NoAttachHistory

NextSink ==
    \E t \in Threads :
        \/ fut[2] = "Video" /\ Plain(deliverVideoData(t, fut[1], Packet(fut[3])))
        \/ fut[2] = "Audio" /\ Plain(deliverAudioData(t, fut[1], Packet(fut[3])))
        \/ Plain(deliverVideoData_(t, fut[1], Packet(fut[3])))
        \/ Plain(deliverAudioData_(t, fut[1], Packet(fut[3])))
        \/ fut[2] = "Feedback" /\ Plain(deliverFeedback(t, fut[1], Packet(fut[3])))
        \/ Plain(deliverFeedback_(t, fut[1], Packet(fut[3])))
        \/ Plain(getVideoSinkSSRC(t, fut[1]))
        \/ Plain(setVideoSinkSSRC(t, fut[1], GuardSSRC))

SpecSink == InitSink /\ [][NextSink]_vars

DeliverOps == {"deliverVideoData", "deliverAudioData"}

ImplOf(op) == IF op = "deliverVideoData" THEN "deliverVideoData_" ELSE "deliverAudioData_"

InImpl(t) == \E i \in 1..Len(stack[t]) : stack[t][i].op \in ImplOps

\* C8: a guard is owned only by a thread whose innermost call is a guarded getter
\* or setter of that object inside its critical section, so no thread owns a
\* guard while deliverVideoData / deliverAudioData / deliverFeedback or the
\* implementation it called is running; and a call a thread makes from the implementation into a
\* guarded method never waits for a guard that thread itself owns, so the owner
\* it waits for can always leave and the call acquires and completes.
C8_NoGuardHeldAcrossDelivery ==
    /\ \A m \in Monitors :
           monitor_mutex_[m] # Free =>
               /\ ~Idle(monitor_mutex_[m])
               /\ Top(monitor_mutex_[m]).op \in SinkGuarded \cup SourceGuarded
               /\ Top(monitor_mutex_[m]).pc \in {"cs", "throw"}
               /\ MonitorOf(Top(monitor_mutex_[m]).this, "MediaSink") = m
    /\ \A t \in Threads : \A o \in Sinks :
           Waiting(t, o, SinkGuarded) => monitor_mutex_[MonitorOf(o, "MediaSink")] # t

\* A thread inside the implementation has re-entered the sink's guarded getter
\* and owns the guard, while another thread, inside the implementation too,
\* waits for it in the setter.
C8_Witness ==
    \E t, u \in Threads : \E o \in Sinks :
        /\ t # u
        /\ InImpl(t)
        /\ InCS(t, o, {"getVideoSinkSSRC"})
        /\ stack[t][1].this = o
        /\ InImpl(u)
        /\ Waiting(u, o, {"setVideoSinkSSRC"})

\* C10: every deliverVideoData / deliverAudioData call invokes the matching
\* implementation (deliverVideoData_ / deliverAudioData_) of the same object
\* exactly once, with the packet it was given, whatever the packet's type, and
\* returns the status the implementation returned.
C10_DeliverForwardsOnce ==
    \A t \in Threads : \A i \in 1..Len(stack[t]) :
        stack[t][i].op \in DeliverOps =>
            /\ stack[t][i].n <= 1
            /\ i < Len(stack[t]) =>
                   /\ stack[t][i].n = 1
                   /\ stack[t][i + 1].op = ImplOf(stack[t][i].op)
                   /\ stack[t][i + 1].this = stack[t][i].this
                   /\ stack[t][i + 1].arg = stack[t][i].arg
            /\ stack[t][i].pc = "ret" =>
                   /\ stack[t][i].n = 1
                   /\ stack[t][i].ret \in StatusCodes
                   /\ stack[t][i].ret = stack[t][i].res

\* deliverVideoData returns the implementation's error status for an audio
\* packet, and deliverAudioData the other status for a video packet.
C10_Witness ==
    \E t \in Threads :
        \/ /\ At(t, "deliverVideoData", "A", "ret")
           /\ Top(t).arg.type = "AUDIO_PACKET"
           /\ Top(t).ret = -1
        \/ /\ At(t, "deliverAudioData", "R", "ret")
           /\ Top(t).arg.type = "VIDEO_PACKET"
           /\ Top(t).ret = 2

\* ------------------------------------------------------------ the feedback channel
\* Threads set R as the destination of A's FeedbackSource and unset it while A
\* emits feedback packets of a type chosen at the start; R's implementation may
\* call setFeedbackSink itself.  lastSet and may follow the setFeedbackSink calls
\* and the emissions as they follow the attachments and the deliveries.
InitFeedback ==
    /\ InitObjects
    /\ fut \in {"A"} \X {"Feedback"} \X packetType
    /\ written = {}
    /\ snap = <<>>
    /\ NoAttachHistory

NextFeedback ==
    \E t \in Threads :
        \/ \E x \in {nullptr, "R"} : Tracked(setFeedbackSink(t, "A", x))
        \/ Tracked(EmitFeedback(t, "A", Packet(fut[3])))
        \/ ~Idle(t) /\ Tracked(deliverFeedback(t, "R", Packet(fut[3])))
        \/ Tracked(deliverFeedback_(t, "R", Packet(fut[3])))

SpecFeedback == InitFeedback /\ [][NextFeedback]_vars

Emitting(t) == Forwarding(stack[t]) /\ stack[t][1].op = "emitFeedback"

\* C9: when R is the destination set on A's FeedbackSource for the whole of an
\* emission (it was the one set when the emission began and no setFeedbackSink
\* call was pending or made since), the emission calls R's deliverFeedback with
\* the emitted packet, deliverFeedback invokes R's deliverFeedback_ exactly once
\* with that packet, and the status the implementation returned is what the
\* emitter gets.
C9_FeedbackDeliveredOnce ==
    \A t \in Threads :
        Emitting(t) /\ may[t] = {"R"} =>
            /\ stack[t][1].pc \in {"checked", "ret"} /\ stack[t][1].n = 0 => stack[t][1].res = "R"
            /\ stack[t][1].pc = "ret" =>
                   /\ stack[t][1].n = 1
                   /\ stack[t][1].ret \in StatusCodes
                   /\ stack[t][1].ret = stack[t][1].res
            /\ Len(stack[t]) >= 2 =>
                   /\ stack[t][1].n = 1
                   /\ stack[t][2].op = "deliverFeedback"
                   /\ stack[t][2].this = "R"
                   /\ stack[t][2].arg = stack[t][1].arg
                   /\ stack[t][2].n <= 1
                   /\ stack[t][2].pc = "ret" =>
                          /\ stack[t][2].n = 1
                          /\ stack[t][2].ret = stack[t][2].res
                          /\ stack[t][2].ret \in StatusCodes
            /\ Len(stack[t]) >= 3 =>
                   /\ stack[t][2].n = 1
                   /\ stack[t][3].op = "deliverFeedback_"
                   /\ stack[t][3].this = "R"
                   /\ stack[t][3].arg = stack[t][1].arg

\* An emission made while R stayed the destination returns the error status of
\* R's implementation to the emitter.
C9_Witness ==
    \E t \in Threads :
        /\ Emitting(t)
        /\ may[t] = {"R"}
        /\ stack[t][1].pc = "ret"
        /\ stack[t][1].n = 1
        /\ stack[t][1].ret = -1
        /\ fb_sink_["A"] = "R"

\* ------------------------------------------------------------ the membership tests
\* One thread, the observer, calls isVideoSourceSSRC (or isAudioSourceSSRC) of R
\* with one id while the other threads set the list (the audio SSRC); the field
\* and the id are chosen at the start.  The lists set are the empty one,
\* <<1, ..., MaxLen>> and <<MaxLen, ..., 1>>.
\* While the observer is inside a membership test, may holds the values the
\* field has had since the test began, each as a sequence, Torn once a setter
\* was inside its critical section during the test, and Late if one was there
\* already when the test began.
ScanLists == {<<>>, [i \in 1..MaxLen |-> i], [i \in 1..MaxLen |-> MaxLen + 1 - i]}

Torn == <<Indeterminate>>

Late == <<Indeterminate, Indeterminate>>

Member(id, l) == \E i \in 1..Len(l) : l[i] = id

Observer == CHOOSE t \in Threads : TRUE

Scanning(s) == s # <<>> /\ s[1].op \in {"isVideoSourceSSRC", "isAudioSourceSSRC"}

InSetter(s) ==
    /\ s # <<>>
    /\ s[1].op \in {"setVideoSourceSSRCList", "setAudioSourceSSRC"}
    /\ s[1].pc \in {"cs", "throw"}

FieldValue ==
    IF fut[2] = "video_source_ssrc_list_" THEN video_source_ssrc_list_["R"]
    ELSE <<audio_source_ssrc_["R"]>>

Observed(A) ==
    /\ A
    /\ UNCHANGED <<fut, written, snap, lastSet, pktVars, destroyed>>
    /\ may' = [u \in Threads |->
                  IF u # Observer \/ ~Scanning(stack'[u]) THEN {}
                  ELSE (IF Scanning(stack[u]) THEN may[u] ELSE {})
                       \cup {FieldValue, FieldValue'}
                       \cup (IF \E w \in Threads : InSetter(stack[w]) \/ InSetter(stack'[w])
                             THEN {Torn} ELSE {})
                       \cup (IF ~Scanning(stack[u]) /\ \E w \in Threads : InSetter(stack[w])
                             THEN {Late} ELSE {})]

InitScan ==
    /\ InitObjects
    /\ fut \in {"R"} \X {"video_source_ssrc_list_", "audio_source_ssrc_"} \X SSRCs
    /\ written = {}
    /\ snap = <<>>
    /\ NoAttachHistory

NextScan ==
    \E t \in Threads :
        \/ /\ t = Observer
           /\ fut[2] = "video_source_ssrc_list_"
           /\ Observed(isVideoSourceSSRC(t, "R", fut[3]))
        \/ \E l \in ScanLists :
               /\ t # Observer
               /\ fut[2] = "video_source_ssrc_list_"
               /\ Observed(setVideoSourceSSRCList(t, "R", l))
        \/ /\ t = Observer
           /\ fut[2] = "audio_source_ssrc_"
           /\ Observed(isAudioSourceSSRC(t, "R", fut[3]))
        \/ \E v \in WriterValues :
               /\ t # Observer
               /\ fut[2] = "audio_source_ssrc_"
               /\ Observed(setAudioSourceSSRC(t, "R", v))

SpecScan == InitScan /\ [][NextScan]_vars

\* C11: a membership test during which the field kept one value returns true
\* iff the id occurs at some index of video_source_ssrc_list_ (for
\* isVideoSourceSSRC), iff it equals audio_source_ssrc_ (for isAudioSourceSSRC).
C11_MembershipTest ==
    Scanning(stack[Observer]) /\ Top(Observer).pc = "ret" =>
        \A l \in may[Observer] :
            may[Observer] = {l} => Top(Observer).ret = Member(Top(Observer).arg, l)

\* isVideoSourceSSRC(2) has returned true on the list <<1, 2>>.
C11_Witness ==
    /\ At(Observer, "isVideoSourceSSRC", "R", "ret")
    /\ may[Observer] = {<<1, 2>>}
    /\ Top(Observer).arg = 2
    /\ Top(Observer).ret = TRUE

\* C18 as stated: isVideoSourceSSRC running while setVideoSourceSSRCList is
\* called returns the membership of the id in one of the lists the Source had
\* during the test (tests that began inside a setter's critical section, whose
\* old list is not known, are left out).
C18_Original_OldOrNewMembership ==
    At(Observer, "isVideoSourceSSRC", "R", "ret") =>
        \/ Late \in may[Observer]
        \/ \E l \in may[Observer] \ {Torn} : Top(Observer).ret = Member(Top(Observer).arg, l)

\* ------------------------------------------------------------ the layers of a packet
\* A collaborator constructs an empty packet of some type, assigns it layer
\* sets (every sequence of up to MaxLen layers 0..MaxLayer) and asks for the
\* layers -1..MaxLayer+1.
MaxLayer == 1

LayerVectors == UNION {[1..n -> 0..MaxLayer] : n \in 0..MaxLen}

Alone(A) == A /\ UNCHANGED histVars

NextLayers ==
    \/ \E type \in packetType : \E now \in Times : Alone(dataPacket4(1, 0, type, now))
    \/ \E dimension \in {"spatial", "temporal"} : \E layers \in LayerVectors :
           Alone(AssignLayers(dimension, layers))
    \/ \E i \in -1..(MaxLayer + 1) : Alone(belongsToSpatialLayer(i))
    \/ \E i \in -1..(MaxLayer + 1) : Alone(belongsToTemporalLayer(i))

SpecLayers == Init /\ [][NextLayers]_vars

\* C12: belongsToSpatialLayer(i) returns true iff i is an element of
\* compatible_spatial_layers, belongsToTemporalLayer(i) iff i is an element of
\* compatible_temporal_layers (so false for every i on the empty set a new
\* packet has), and the packet is after the call what it was before it.
C12_BelongsToLayer ==
    Len(answer) = 1 =>
        /\ answer[1].op = "belongsToSpatialLayer" =>
               answer[1].result = Member(answer[1].index, pkt[1].compatible_spatial_layers)
        /\ answer[1].op = "belongsToTemporalLayer" =>
               answer[1].result = Member(answer[1].index, pkt[1].compatible_temporal_layers)
        /\ answer[1].before = pkt[1]

\* belongsToTemporalLayer(1) has returned true on the layers <<0, 1>> of a packet
\* whose spatial layer set is empty.
C12_Witness ==
    /\ Len(answer) = 1
    /\ answer[1].op = "belongsToTemporalLayer"
    /\ answer[1].index = 1
    /\ answer[1].result = TRUE
    /\ pkt[1].compatible_temporal_layers = <<0, 1>>
    /\ pkt[1].compatible_spatial_layers = <<>>

\* ------------------------------------------------------------ the payload of a packet
\* A collaborator fills its buffer (0..MaxPayload or 1500 bytes),
\* constructs packets from it with each constructor and each length of
\* LengthArgs, and writes into the buffer afterwards.  snap keeps the buffer as
\* it was at the construction, and the length passed; fut is the packet type
\* and the time of the run: the type a collaborator passes where a constructor
\* takes one, the time it passes or the clock shows.
Buffers == {[i \in 1..n |-> (i * 7) % 256] : n \in (0..MaxPayload) \cup {Capacity}}

Built(A, length_) == A /\ snap' = <<buf, length_>> /\ UNCHANGED <<fut, written, lastSet, may>>

InitPacket ==
    /\ InitObjects
    /\ fut \in packetType \X Times
    /\ written = {}
    /\ snap = <<>>
    /\ NoAttachHistory

NextPacket ==
    \/ \E b \in Buffers : Alone(FillBuffer(b))
    \/ \E length_ \in LengthArgs : Built(dataPacket5(1, length_, fut[1], fut[2]), length_)
    \/ \E length_ \in LengthArgs : Built(dataPacket4(1, length_, fut[1], fut[2]), length_)
    \/ \E length_ \in LengthArgs : Built(dataPacket3(1, length_, fut[2]), length_)
    \/ Alone(Scribble)

SpecPacket == InitPacket /\ [][NextPacket]_vars

\* C13 as stated: every constructed packet has 0 <= length <= 1500.
C13_Original_LengthWithinCapacity ==
    Len(pkt) = 1 => 0 <= pkt[1].length /\ pkt[1].length <= Capacity

\* C13, amended: a packet constructed with a length argument 0 <= length_ <= 1500
\* has length = length_, so 0 <= length <= 1500, whichever constructor made it.
C13_LengthIsArgument ==
    /\ Len(pkt) = 1
    /\ 0 <= snap[2]
    /\ snap[2] <= Capacity
    => /\ pkt[1].length = snap[2]
       /\ 0 <= pkt[1].length
       /\ pkt[1].length <= Capacity

\* An audio packet made with the length argument 1500.
C13_Witness ==
    /\ Len(pkt) = 1
    /\ snap[2] = Capacity
    /\ pkt[1].length = Capacity
    /\ pkt[1].type = "AUDIO_PACKET"

\* C14: a packet constructed with 0 <= length <= 1500 from a buffer of at least
\* length bytes has, as its first length bytes, the first length bytes the
\* buffer had at the construction, whatever is written into the buffer later.
C14_PayloadIsCopy ==
    /\ Len(pkt) = 1
    /\ 0 <= snap[2]
    /\ snap[2] <= Capacity
    /\ snap[2] <= Len(snap[1])
    => /\ pkt[1].length = snap[2]
       /\ Len(pkt[1].data) >= pkt[1].length
       /\ \A i \in 1..pkt[1].length : pkt[1].data[i] = snap[1][i]

\* A packet of 1500 bytes keeps the first byte it copied after the collaborator
\* has overwritten the first byte of its buffer.
C14_Witness ==
    /\ Len(pkt) = 1
    /\ pkt[1].length = Capacity
    /\ snap[2] = Capacity
    /\ Len(snap[1]) = Capacity
    /\ Len(buf) = Capacity
    /\ buf # snap[1]
    /\ buf[1] = 255
    /\ pkt[1].data[1] = snap[1][1]
    /\ pkt[1].data[Capacity] = snap[1][Capacity]

\* ------------------------------------------------------------ attaching sinks
\* Threads attach and detach the video and the audio sink of the source "R"
\* while the field fut names (the audio SSRC or the video SSRC list) is set
\* too.
InitAttach ==
    /\ InitObjects
    /\ fut \in {"R"} \X {"audio_source_ssrc_", "video_source_ssrc_list_"}
    /\ written = {}
    /\ snap = <<>>
    /\ NoAttachHistory

NextAttach ==
    \E t \in Threads :
        \/ \E s \in Sinks \cup {nullptr} : Plain(setVideoSink(t, "R", s))
        \/ \E s \in Sinks \cup {nullptr} : Plain(setAudioSink(t, "R", s))
        \/ \E v \in WriterValues :
               fut[2] = "audio_source_ssrc_" /\ Plain(setAudioSourceSSRC(t, "R", v))
        \/ \E l \in ListArgs :
               fut[2] = "video_source_ssrc_list_" /\ Plain(setVideoSourceSSRCList(t, "R", l))

SpecAttach == InitAttach /\ [][NextAttach]_vars

InCall(s, op) == s # <<>> /\ s[Len(s)].op = op

\* Thread t takes a step of a call of op: it calls it, runs it or leaves it.
Acts(t, op) == stack'[t] # stack[t] /\ (InCall(stack[t], op) \/ InCall(stack'[t], op))

\* The step of the call that holds the assignment.
Assigns(t, op) == InCall(stack[t], op) /\ Top(t).pc = "lock" /\ stack'[t] # stack[t]

\* C15: a Source has one video sink and one audio sink field.  A call of
\* setVideoSink(s) assigns s to the video sink, whatever was there, and none of
\* its steps changes the audio sink, the feedback sink or an SSRC field;
\* setAudioSink(s) assigns s to the audio sink and changes nothing else.
C15_AttachReplacesOnlyItsSink ==
    [][\A t \in Threads :
        /\ Acts(t, "setVideoSink") =>
            /\ video_sink_' = IF Assigns(t, "setVideoSink")
                              THEN [video_sink_ EXCEPT ![Top(t).this] = Top(t).arg]
                              ELSE video_sink_
            /\ UNCHANGED <<audio_sink_, source_fb_sink_, fb_sink_, audio_source_ssrc_,
                           video_source_ssrc_list_, sinkVars>>
        /\ Acts(t, "setAudioSink") =>
            /\ audio_sink_' = IF Assigns(t, "setAudioSink")
                              THEN [audio_sink_ EXCEPT ![Top(t).this] = Top(t).arg]
                              ELSE audio_sink_
            /\ UNCHANGED <<video_sink_, source_fb_sink_, fb_sink_, audio_source_ssrc_,
                           video_source_ssrc_list_, sinkVars>>]_vars

\* setVideoSink("A") has replaced the video sink while the audio sink "R" and
\* an audio SSRC that is not the initial one were in place.
C15_Witness ==
    \E t \in Threads :
        /\ AtArg(t, "setVideoSink", "R", "A", "cs")
        /\ video_sink_["R"] = "A"
        /\ audio_sink_["R"] = "R"
        /\ audio_source_ssrc_["R"] = MaxSSRC

\* ------------------------------------------------------------ tearing down a feedback sink
\* Threads of the owning collaborators set and unset the destinations of the
\* FeedbackSources and destroy FeedbackSinks, following the destruction protocol
\* or not.  snap is the set of sinks that have been some source's destination,
\* written the set of sinks handled against the protocol: a sink destroyed
\* while it was not detached, or passed to setFeedbackSink after its
\* destruction.
ReferencedNow(x) == \E o \in FeedbackSources : fb_sink_[o] = x

DetachedNow(x) == ~ReferencedNow(x)

\* No FeedbackSource references x and no setFeedbackSink(x) is under way.
Detached(x) ==
    /\ ~ReferencedNow(x)
    /\ \A t \in Threads : ~Idle(t) => ~(Top(t).op = "setFeedbackSink" /\ Top(t).arg = x)

Owned(A) ==
    /\ A
    /\ UNCHANGED <<fut, lastSet, may, pktVars, destroyed>>
    /\ snap' = snap \cup ({fb_sink_'[o] : o \in FeedbackSources} \ {nullptr})
    /\ written' = written \cup {x \in destroyed : \E t \in Threads :
                                    /\ Idle(t)
                                    /\ stack'[t] # <<>>
                                    /\ stack'[t][1].op = "setFeedbackSink"
                                    /\ stack'[t][1].arg = x}

TornDown(A, x) ==
    /\ A
    /\ UNCHANGED <<fut, lastSet, may, pktVars, snap>>
    /\ written' = IF Detached(x) THEN written ELSE written \cup {x}

InitTeardown ==
    /\ InitObjects
    /\ fut = <<"R", "Feedback">>
    /\ written = {}
    /\ snap = {}
    /\ NoAttachHistory

NextTeardown ==
    \E t \in Threads :
        \/ \E o \in FeedbackSources : \E x \in FeedbackSinks \cup {nullptr} :
               Owned(setFeedbackSink(t, o, x))
        \/ \E x \in FeedbackSinks : TornDown(DestroyFeedbackSink(t, x), x)

SpecTeardown == InitTeardown /\ [][NextTeardown]_vars

C17_PrimaryIsElementZero ==
    [][\A t \in Threads :
        /\ Assigns(t, "getVideoSourceSSRC") /\ video_source_ssrc_list_[Top(t).this] # <<>> =>
               stack'[t][Len(stack'[t])].ret = video_source_ssrc_list_[Top(t).this][1]
        /\ Assigns(t, "setVideoSourceSSRC") =>
               /\ Len(video_source_ssrc_list_'[Top(t).this]) = Len(video_source_ssrc_list_[Top(t).this])
               /\ \A i \in 2..Len(video_source_ssrc_list_[Top(t).this]) :
                      video_source_ssrc_list_'[Top(t).this][i] = video_source_ssrc_list_[Top(t).this][i]
               /\ video_source_ssrc_list_[Top(t).this] # <<>> =>
                      video_source_ssrc_list_'[Top(t).this][1] = Top(t).arg]_vars

\* setVideoSourceSSRC(MaxSSRC) has overwritten element 0 of the list <<1, 2>>,
\* and getVideoSourceSSRC has returned the new element 0.
C17_Witness ==
    \E t \in Threads :
        /\ At(t, "getVideoSourceSSRC", "R", "cs")
        /\ Top(t).ret = MaxSSRC
        /\ Len(video_source_ssrc_list_["R"]) = 2
        /\ video_source_ssrc_list_["R"][1] = MaxSSRC
        /\ video_source_ssrc_list_["R"][2] = 2

\* ------------------------------------------------------------ guarded getters after guarded setters
\* One thread, the Observer, calls the guarded getters of the field fut names
\* while the other threads call its guarded setters.  may holds Overlap if a
\* setter call was under way at any moment since the getter call the Observer
\* is making began; snap is the setter call that assigned last.  The feedback references have
\* guarded getters and no setter.
GuardedGetters == SSRCGetters \cup {"getVideoSourceSSRCList", "getFeedbackSink", "getFeedbackSource"}

GuardedSetters == SSRCSetters \cup {"setVideoSourceSSRCList"}

Getting(s) == s # <<>> /\ s[1].op \in GuardedGetters

Setting(s) == s # <<>> /\ s[1].op \in GuardedSetters

Overlap == <<>>

Held ==
    <<CASE fut[2] = "video_sink_ssrc_" -> video_sink_ssrc_[fut[1]]
        [] fut[2] = "audio_sink_ssrc_" -> audio_sink_ssrc_[fut[1]]
        [] fut[2] = "audio_source_ssrc_" -> audio_source_ssrc_[fut[1]]
        [] fut[2] = "video_source_ssrc_list_" -> video_source_ssrc_list_[fut[1]]
        [] fut[2] = "source_fb_sink_" -> source_fb_sink_[fut[1]]
        [] fut[2] = "sink_fb_source_" -> sink_fb_source_[fut[1]]>>

\* The threads whose setter call makes its assignment in this step.
Assigning ==
    {w \in Threads : /\ Setting(stack[w])
                     /\ stack[w][1].pc = "lock"
                     /\ stack'[w] # <<>>
                     /\ stack'[w][1].pc = "cs"}

Linear(A) ==
    /\ A
    /\ UNCHANGED <<fut, written, lastSet, pktVars, destroyed>>
    /\ snap' = IF Assigning = {} THEN snap
               ELSE <<[op |-> stack[CHOOSE w \in Assigning : TRUE][1].op,
                       arg |-> stack[CHOOSE w \in Assigning : TRUE][1].arg]>>
    /\ may' = [u \in Threads |->
                  IF u # Observer \/ ~Getting(stack'[u]) THEN {}
                  ELSE (IF Getting(stack[u]) THEN may[u] ELSE {})
                       \cup (IF \E w \in Threads : Setting(stack[w]) \/ Setting(stack'[w])
                             THEN {Overlap} ELSE {})]

InitLinear ==
    /\ InitObjects
    /\ fut \in {"R"} \X {"video_sink_ssrc_", "audio_sink_ssrc_", "audio_source_ssrc_",
                         "video_source_ssrc_list_", "source_fb_sink_", "sink_fb_source_"}
    /\ written = {}
    /\ snap = <<>>
    /\ NoAttachHistory

NextLinear ==
    \E t \in Threads :
        \/ t = Observer /\ fut[2] = "video_sink_ssrc_" /\ Linear(getVideoSinkSSRC(t, "R"))
        \/ \E v \in WriterValues :
               t # Observer /\ fut[2] = "video_sink_ssrc_" /\ Linear(setVideoSinkSSRC(t, "R", v))
        \/ t = Observer /\ fut[2] = "audio_sink_ssrc_" /\ Linear(getAudioSinkSSRC(t, "R"))
        \/ \E v \in WriterValues :
               t # Observer /\ fut[2] = "audio_sink_ssrc_" /\ Linear(setAudioSinkSSRC(t, "R", v))
        \/ t = Observer /\ fut[2] = "audio_source_ssrc_" /\ Linear(getAudioSourceSSRC(t, "R"))
        \/ \E v \in WriterValues :
               t # Observer /\ fut[2] = "audio_source_ssrc_" /\ Linear(setAudioSourceSSRC(t, "R", v))
        \/ t = Observer /\ fut[2] = "video_source_ssrc_list_" /\ Linear(getVideoSourceSSRCList(t, "R"))
        \/ t = Observer /\ fut[2] = "video_source_ssrc_list_" /\ Linear(getVideoSourceSSRC(t, "R"))
        \/ \E l \in ListArgs :
               t # Observer /\ fut[2] = "video_source_ssrc_list_"
                   /\ Linear(setVideoSourceSSRCList(t, "R", l))
        \/ \E v \in WriterValues :
               t # Observer /\ fut[2] = "video_source_ssrc_list_"
                   /\ Linear(setVideoSourceSSRC(t, "R", v))
        \/ t = Observer /\ fut[2] = "source_fb_sink_" /\ Linear(getFeedbackSink(t, "R"))
        \/ t = Observer /\ fut[2] = "sink_fb_source_" /\ Linear(getFeedbackSource(t, "R"))

SpecLinear == InitLinear /\ [][NextLinear]_vars

\* The value g returned, r, is what the setter call w wrote.
Agrees(g, r, w) ==
    CASE g = "getVideoSourceSSRCList" ->
             IF w.op = "setVideoSourceSSRCList" THEN Contents(r) = w.arg
             ELSE Contents(r) = <<>> \/ Contents(r)[1] = w.arg
      [] g = "getVideoSourceSSRC" ->
             IF w.op = "setVideoSourceSSRCList" THEN w.arg = <<>> \/ r = w.arg[1]
             ELSE video_source_ssrc_list_[fut[1]] = <<>> \/ r = w.arg
      [] OTHER -> r = w.arg

\* C19: as long as a guarded getter has not left its scope, what it is about to
\* return is what its field holds (for getVideoSourceSSRC: element 0 of the
\* list), whatever setters the other threads call; and when no setter call of
\* the field was under way at any moment of the getter call, it is exactly what
\* the setter call that assigned last wrote.
C19_LastCompletedWriteWins ==
    Getting(stack[Observer]) /\ Top(Observer).pc = "cs" =>
        /\ CASE Top(Observer).op = "getVideoSourceSSRCList" ->
                    Contents(Top(Observer).ret) = Held[1]
             [] Top(Observer).op = "getVideoSourceSSRC" ->
                    Held[1] = <<>> \/ Held[1][1] = Top(Observer).ret
             [] OTHER -> Top(Observer).ret = Held[1]
        /\ Overlap \notin may[Observer] /\ Len(snap) = 1 =>
               Agrees(Top(Observer).op, Top(Observer).ret, snap[1])

\* getVideoSourceSSRCList, called after setVideoSourceSSRCList(<<1, 2>>) had
\* returned and with no setter call since, has returned <<1, 2>>.
C19_Witness ==
    /\ At(Observer, "getVideoSourceSSRCList", "R", "cs")
    /\ Overlap \notin may[Observer]
    /\ Len(snap) = 1
    /\ snap[1].op = "setVideoSourceSSRCList"
    /\ snap[1].arg = <<1, 2>>
    /\ Contents(Top(Observer).ret) = <<1, 2>>

====
